---- MODULE Spec2Model ----
(***************************************************************************)
(* Verification model of the hotchkiss-content-gen ingestion scripts:      *)
(*   generate_embeddings.py  (paragraph-aggregating chunker)               *)
(*   embed_to_supabase.py    (token-window chunker, create_embedding,      *)
(*                            upsert_chunks, main)                         *)
(*   crawl_hotchkiss.py      (crawl_all)                                   *)
(*                                                                         *)
(* Texts are abstracted by what the code observes of them: the token       *)
(* counts the tokenizer returns.  Four specifications share the module:    *)
(*   ChunkSpec  the two chunkers as pure functions of their input          *)
(*   EmbedSpec  the loop of main over the pages, one HTTP request per step *)
(*   Spec       whole runs of embed_to_supabase.main, one batch per step   *)
(*   CrawlSpec  runs of crawl_all, one url per step                        *)
(***************************************************************************)
EXTENDS Integers, Sequences, FiniteSets, TLC

VARIABLES
    ck_mode,      \* ChunkSpec: which function the input is for
    ck_markdown,  \* ChunkSpec: input of split_text_into_chunks
    ck_text,      \* ChunkSpec: input of split_text
    ck_html,      \* ChunkSpec: input of main_html
    ck_out,       \* ChunkSpec: returned value
    ck_pc,        \* ChunkSpec: "input" before the call, "done" after
    pc,           \* position of the embed_to_supabase process
    run,          \* number of runs of embed_to_supabase started so far
    pages,        \* rows of the 'pages' table: <<[url, markdown], ...>>
    store,        \* the 'pages_chunks' table: a bag of rows
    p,            \* position in pages of the page being processed
    chunk_objects,\* split_text(markdown) of that page
    j,            \* offset of the current embedding batch in the page
    call,         \* create_embedding: attempt, waits, requests, result
    hist,         \* responses received by the current create_embedding call
    requests_log, \* HTTP requests issued in this run: [p, j, n, ok]
    chunks_embedded,
    total_pages_processed,
    total_chunks_embedded,
    total_tokens,
    total_errors,
    initial_chunks_count,
    final_chunks_count,
    exit_code,    \* Running, then the exit status of the process
    run_ok,       \* history: no embedding batch and no upsert failed in this run
    prev_ok,      \* history: the previous run printed its summary with run_ok
    prev_store,   \* history: the store as the previous run left it, if prev_ok
    env,          \* which of the required environment variables are set
    trace,        \* history: the calls this run made to the store and the service
    cr_pc,        \* position of the crawl_hotchkiss process
    cr_run,       \* number of crawls started so far
    cr_urls,      \* url_list
    cr_failing,   \* urls whose fetch or processing raises in this crawl
    cr_i,         \* position in url_list of the next url
    cr_db,        \* committed rows of the sqlite 'pages' table
    cr_conn,      \* the rows as the open connection sees them
    cr_errors,    \* number of error lines printed by this crawl
    cr_attempted, \* history: urls passed to page.goto, in order
    cr_before,    \* history: cr_db when this crawl started
    gen_pc,       \* position of the generate_embeddings process
    gen_env,      \* which of its environment variables are set
    gen_pages,    \* rows of the 'pages' table it reads
    gen_store,    \* the 'pages_chunks' table it writes: a bag of rows
    gen_i,        \* offset in pages of the current batch of pages
    total_chunks_success,
    total_chunks_error,
    gen_exit      \* Running, then the exit status of the process

run_vars == <<pc, run, pages, store, p, chunk_objects, j, call, hist, requests_log,
              chunks_embedded, total_pages_processed, total_chunks_embedded,
              total_tokens, total_errors, initial_chunks_count,
              final_chunks_count, exit_code, run_ok, prev_ok, prev_store,
              env, trace>>

cr_vars == <<cr_pc, cr_run, cr_urls, cr_failing, cr_i, cr_db, cr_conn, cr_errors,
             cr_attempted, cr_before>>

gen_vars == <<gen_pc, gen_env, gen_pages, gen_store, gen_i,
              total_chunks_success, total_chunks_error, gen_exit>>

vars == <<ck_mode, ck_markdown, ck_text, ck_html, ck_out, ck_pc, run_vars, cr_vars, gen_vars>>

ck_vars == <<ck_mode, ck_markdown, ck_text, ck_html, ck_out, ck_pc>>

NoValue == "none"

Min(a, b) == IF a < b THEN a ELSE b

RECURSIVE SumSeq(_)
SumSeq(s) == IF s = <<>> THEN 0 ELSE Head(s) + SumSeq(Tail(s))

(***************************************************************************)
(* generate_embeddings.py : split_text_into_chunks                         *)
(***************************************************************************)
TARGET_TOKENS_PER_CHUNK == 400
MAX_TOKENS_PER_CHUNK == 500

\* Largest number of text blocks of an input text.
MaxParas == 3

\* Token counts a block of text may have (len(tokenizer.encode(...))).
ParaTokens == {1, 100, 399, 400, 500, 501}

\* What precedes a block of text: one line break ("newline"), or a line
\* break, optional whitespace and a line break ("blank"), the separator
\* that re.split(r'\n\s*\n') cuts at.
Gaps == {"newline", "blank"}

\* What follows the last block: nothing, or whitespace.
Tails == {"", "space"}

\* A markdown text: its blocks in order, each with the gap before it, and
\* its tail.  No block and tail "" is the empty string; no block and tail
\* "space" is a text made of whitespace only.
MarkdownsOf(tokens) ==
    [segs : UNION {[1..n -> [gap : Gaps, tokens : tokens]] : n \in 0..MaxParas},
     tail : Tails]

Markdowns == MarkdownsOf(ParaTokens)

EmptyMarkdown == [segs |-> <<>>, tail |-> ""]

\* not text or text.strip() == ""
IsBlankMarkdown(text) == text.segs = <<>>

\* A split at every line break: each block is a paragraph of its own.
Paragraphs_everyline(segs, k) ==
    [i \in 1..(Len(segs) - k + 1) |->
        [first |-> k + i - 1, last |-> k + i - 1, tokens |-> segs[k + i - 1].tokens]]

\* re.split(r'\n\s*\n', text), each piece stripped, the empty ones dropped:
\* a block after a "blank" gap starts a paragraph, a block after a
\* "newline" goes on with the paragraph before it (one more token for the
\* line break).  A paragraph is [first, last, tokens]: its blocks and
\* len(tokenizer.encode(paragraph)).
RECURSIVE Paragraphs(_, _)
Paragraphs(segs, k) ==
    IF k > Len(segs) THEN <<>>
    ELSE LET rest == Paragraphs(segs, k + 1)
         IN  IF rest # <<>> /\ segs[k + 1].gap = "newline"
             THEN <<[first |-> k, last |-> Head(rest).last,
                     tokens |-> segs[k].tokens + 1 + Head(rest).tokens]>> \o Tail(rest)
             ELSE <<[first |-> k, last |-> k, tokens |-> segs[k].tokens]>> \o rest

ParagraphTokenCounts(text) ==
    LET paragraphs == Paragraphs(text.segs, 1)
    IN  [i \in 1..Len(paragraphs) |-> paragraphs[i].tokens]

\* The two thresholds of the loop, as the module sets them.
CodeLimits == [target |-> TARGET_TOKENS_PER_CHUNK, max |-> MAX_TOKENS_PER_CHUNK]

\* State of the loop over paragraphs: chunks flushed so far, the
\* accumulating chunk (paragraph positions) and its token count.
ChunkerStart == [chunks |-> <<>>, current_chunk |-> <<>>, current_token_count |-> 0]

\* " ".join(current_chunk) : the chunk keeps its paragraphs, in order, and
\* the token count the loop accumulated for it.
FlushChunk(st) ==
    [st EXCEPT !.chunks = Append(st.chunks,
                                 [paras |-> st.current_chunk,
                                  token_count |-> st.current_token_count]),
               !.current_chunk = <<>>,
               !.current_token_count = 0]

\* An iteration that flushes after the append only above the target.
ParagraphStep_above(lim, st, paras, i) ==
    LET s1 == IF st.current_token_count + paras[i] > lim.max /\ st.current_chunk # <<>>
              THEN FlushChunk(st) ELSE st
        s2 == [s1 EXCEPT !.current_chunk = Append(s1.current_chunk, i),
                         !.current_token_count = s1.current_token_count + paras[i]]
    IN  IF s2.current_token_count > lim.target THEN FlushChunk(s2) ELSE s2

\* One iteration of "for paragraph in paragraphs", paragraph i of paras,
\* with lim.max for MAX_TOKENS_PER_CHUNK and lim.target for
\* TARGET_TOKENS_PER_CHUNK.
ParagraphStep(lim, st, paras, i) ==
    LET paragraph_token_count == paras[i]
        s1 == IF st.current_token_count + paragraph_token_count > lim.max
                 /\ st.current_chunk # <<>>
              THEN FlushChunk(st) ELSE st
        s2 == [s1 EXCEPT !.current_chunk = Append(s1.current_chunk, i),
                         !.current_token_count = s1.current_token_count + paragraph_token_count]
    IN  IF s2.current_token_count >= lim.target THEN FlushChunk(s2) ELSE s2

RECURSIVE ParagraphLoop(_, _, _, _)
ParagraphLoop(lim, st, paras, i) ==
    IF i > Len(paras) THEN st
    ELSE ParagraphLoop(lim, ParagraphStep(lim, st, paras, i), paras, i + 1)

\* Lines 103-132 on the paragraph list paras (token counts).
AggregateParagraphs(lim, paras) ==
    LET st == ParagraphLoop(lim, ChunkerStart, paras, 1)
    IN  IF st.current_chunk # <<>> THEN FlushChunk(st).chunks ELSE st.chunks

\* split_text_into_chunks with the thresholds lim.
SplitWith(lim, text) ==
    IF IsBlankMarkdown(text) THEN <<>>
    ELSE AggregateParagraphs(lim, ParagraphTokenCounts(text))

split_text_into_chunks(text) == SplitWith(CodeLimits, text)

(***************************************************************************)
(* embed_to_supabase.py : split_text                                       *)
(***************************************************************************)
CHUNK_SIZE == 400
CHUNK_OVERLAP == 50
SKIP_ABOVE_TOKENS == 450

\* Token lengths of an input text (len(encode(text))); 0 is the empty string.
TextTokens == {0, 1, 400, 401, 750, 751, 1100, 1101}

\* Largest number of windows a text of TextTokens has.
MaxWindows == 4

\* A window is decoded to a string and that string is encoded again to count
\* its tokens: the count is the window's length plus a drift that depends on
\* the text (token boundaries cut by the window).
RetokDrift == {0, 2, 51}

\* blank: the text is made of whitespace only (every text of 0 tokens, the
\* empty string, is).
Texts ==
    {t \in [ntok : TextTokens, drift : [1..MaxWindows -> RetokDrift], blank : BOOLEAN] :
        t.ntok = 0 => t.blank}

EmptyText == [ntok |-> 0, drift |-> [i \in 1..MaxWindows |-> 0], blank |-> TRUE]

\* TokenTextSplitter(chunk_size, chunk_overlap).split_text: windows of
\* CHUNK_SIZE tokens, each starting CHUNK_SIZE - CHUNK_OVERLAP after the last.
RECURSIVE TokenWindows(_, _)
TokenWindows(start_idx, n) ==
    IF start_idx >= n THEN <<>>
    ELSE LET cur_idx == Min(start_idx + CHUNK_SIZE, n)
         IN  <<[from |-> start_idx, to |-> cur_idx]>> \o
             (IF cur_idx = n THEN <<>>
              ELSE TokenWindows(start_idx + (CHUNK_SIZE - CHUNK_OVERLAP), n))

\* len(splitter._tokenizer.encode(chunk)) of window i.
TokenCount(text, windows, i) == (windows[i].to - windows[i].from) + text.drift[i]

KeepChunk(token_count) == token_count <= SKIP_ABOVE_TOKENS

split_text(text) ==
    IF text.ntok = 0 THEN <<>>
    ELSE LET windows == TokenWindows(0, text.ntok)
             counted == [i \in 1..Len(windows) |->
                            [text |-> windows[i], tokens |-> TokenCount(text, windows, i)]]
         IN  SelectSeq(counted, LAMBDA c : KeepChunk(c.tokens))

(***************************************************************************)
(* embed_to_supabase.py : create_embedding                                 *)
(***************************************************************************)
\* Default of the parameter "retries".
RETRIES == 3

\* What one requests.post can bring back.  status 0 with body "exception"
\* is a requests.exceptions.RequestException (no response at all).  A 200
\* carries "data" (one vector per input text, in input order), "short"
\* (data with one item fewer than there were texts), "empty" (data: []) or
\* "malformed" (JSON without the "data" key).  payload tells the vectors of
\* one response from those of another.
Payloads == {1, 2}

OkResponse(pl) == [status |-> 200, body |-> "data", payload |-> pl]
ShortResponse == [status |-> 200, body |-> "short", payload |-> 1]
EmptyResponse == [status |-> 200, body |-> "empty", payload |-> 0]
MalformedResponse == [status |-> 200, body |-> "malformed", payload |-> 0]
ErrorResponse(code) == [status |-> code, body |-> "error", payload |-> 0]
RequestException == [status |-> 0, body |-> "exception", payload |-> 0]

Responses ==
    {OkResponse(pl) : pl \in Payloads}
    \cup {ShortResponse, EmptyResponse, MalformedResponse, RequestException}
    \cup {ErrorResponse(code) : code \in {429, 500, 503, 400, 404}}

\* The responses of the whole-run specifications: one of each way
\* create_embedding ends (all the vectors, none, None, KeyError).
RunResponses ==
    {OkResponse(1), EmptyResponse, MalformedResponse, ErrorResponse(429),
     ErrorResponse(400)}

\* [item["embedding"] for item in result["data"]]
Vectors(texts, resp) ==
    CASE resp.body = "data" ->
            [k \in 1..Len(texts) |-> [of |-> texts[k], payload |-> resp.payload]]
      [] resp.body = "short" ->
            [k \in 1..(Len(texts) - 1) |-> [of |-> texts[k], payload |-> resp.payload]]
      [] OTHER -> <<>>

\* A call of create_embedding: the loop variable, the sleeps made so far,
\* the requests issued so far, and how it ended.
None == [none |-> TRUE, vectors |-> <<>>]

List(v) == [none |-> FALSE, vectors |-> v]

NewCall == [attempt |-> 0, waits |-> <<>>, requests |-> 0,
            status |-> "running", result |-> None]

IdleCall == [attempt |-> 0, waits |-> <<>>, requests |-> 0,
             status |-> "idle", result |-> None]

\* A backoff that grows by the attempt number instead of doubling.
wait_time_linear(attempt) == 2 * attempt

\* wait_time = 2 ** attempt
wait_time(attempt) == 2 ^ attempt

\* time.sleep(wait_time)
Sleep(c) == [c EXCEPT !.waits = Append(@, wait_time(c.attempt))]

\* return <value>
Return(c, value) == [c EXCEPT !.status = "returned", !.result = value]

\* "continue", or falling off the end of the try block: the next iteration
\* of range(retries), or the code after the loop, which returns None.
NextAttempt(c) ==
    IF c.attempt + 1 < RETRIES THEN [c EXCEPT !.attempt = @ + 1]
    ELSE Return(c, None)

\* A rate-limit branch that retries at once.
OnRateLimit_nosleep(c) == NextAttempt(c)

\* status 429: sleep, continue.
OnRateLimit(c) == NextAttempt(Sleep(c))

\* status >= 500: sleep unless this is the last attempt, continue.
OnServerError(c) ==
    NextAttempt(IF c.attempt < RETRIES - 1 THEN Sleep(c) ELSE c)

\* except RequestException: sleep unless this is the last attempt.
OnRequestException(c) ==
    NextAttempt(IF c.attempt < RETRIES - 1 THEN Sleep(c) ELSE c)

\* A client error handled like a server error.
OnOtherStatus_retry(c) == OnServerError(c)

\* any other status: break, then return None.
OnOtherStatus(c) == Return(c, None)

\* status 200: the vectors of the body; a body without "data" raises
\* KeyError, which the except clause does not catch.
OnSuccess(c, texts, resp) ==
    IF resp.body = "malformed" THEN [c EXCEPT !.status = "raised"]
    ELSE Return(c, List(Vectors(texts, resp)))

\* One iteration of "for attempt in range(retries)" that receives resp.
AttemptStep(c, texts, resp) ==
    LET sent == [c EXCEPT !.requests = @ + 1]
    IN  CASE resp.body = "exception" -> OnRequestException(sent)
          [] resp.status = 200 /\ resp.body # "exception" -> OnSuccess(sent, texts, resp)
          [] resp.status = 429 -> OnRateLimit(sent)
          [] resp.status >= 500 -> OnServerError(sent)
          [] OTHER -> OnOtherStatus(sent)

\* create_embedding(texts) when the service answers resps[1], resps[2], ...
\* The call stops at its return (or raise) or when resps is used up.
RECURSIVE AttemptLoop(_, _, _)
AttemptLoop(c, texts, resps) ==
    IF c.status # "running" \/ resps = <<>> THEN c
    ELSE AttemptLoop(AttemptStep(c, texts, Head(resps)), texts, Tail(resps))

create_embedding(texts, resps) ==
    IF texts = <<>> THEN Return(NewCall, List(<<>>))
    ELSE AttemptLoop(NewCall, texts, resps)

\* The response sequences of RunResponses that one call consumes to its
\* end: the call is still running before the last response and over after.
ResponseRunsOf(responses) ==
    {resps \in UNION {[1..n -> responses] : n \in 1..RETRIES} :
        /\ AttemptLoop(NewCall, <<>>, resps).status # "running"
        /\ AttemptLoop(NewCall, <<>>, SubSeq(resps, 1, Len(resps) - 1)).status = "running"}

ResponseRuns == ResponseRunsOf(RunResponses)

\* The same with the 200 whose data is one item short.
TraceResponseRuns == ResponseRunsOf(RunResponses \cup {ShortResponse})

(***************************************************************************)
(* crawl_hotchkiss.py : main_html                                          *)
(***************************************************************************)
\* An html document, by what main_html looks for in it: for each of
\* <main id="fsPageContent">, <div id="fsPageContent"> and <body>, whether
\* the document has none, has one, or has one that is (or lies inside) an
\* element of class fsNavigation; and whether the document has elements of
\* class fsNavigation at all.
ElementStates == {"absent", "present", "in_navigation"}

Documents ==
    {d \in [main : ElementStates, div : ElementStates, body : ElementStates,
            navigation : BOOLEAN] :
        ("in_navigation" \in {d.main, d.div, d.body}) => d.navigation}

EmptyDocument == [main |-> "absent", div |-> "absent", body |-> "absent",
                  navigation |-> FALSE]

\* for tag in soup.select(".fsNavigation"): tag.decompose()
Decompose(d) ==
    [e \in {"main", "div", "body"} |-> IF d[e] = "in_navigation" THEN "absent" ELSE d[e]]

\* soup.find(name, id="fsPageContent") and soup.body: None or the element.
Find(soup, name) == soup[name] = "present"

\* "".join(str(c) for c in element.contents): the children of the element
\* in the tree the navigation was removed from.
ContentsOf(name) == [from |-> name, navigation |-> FALSE]

\* The string html the function was given.
RawInput(d) == [from |-> "html", navigation |-> d.navigation]

\* A lookup that tries the div before the main element.
main_html_div_first(d) ==
    LET soup == Decompose(d)
    IN  IF Find(soup, "div") THEN ContentsOf("div")
        ELSE IF Find(soup, "main") THEN ContentsOf("main")
        ELSE IF Find(soup, "body") THEN ContentsOf("body")
        ELSE RawInput(d)

main_html(d) ==
    LET soup == Decompose(d)
        main == IF Find(soup, "main") THEN "main"
                ELSE IF Find(soup, "div") THEN "div" ELSE "none"
    IN  IF main # "none" THEN ContentsOf(main)
        ELSE IF Find(soup, "body") THEN ContentsOf("body")
        ELSE RawInput(d)

(***************************************************************************)
(* embed_to_supabase.py : the 'pages_chunks' table and upsert_chunks       *)
(***************************************************************************)
\* The table is a bag of rows, kept as a set of [row, copies].
EmptyStore == {}

BagAdd(b, row) ==
    IF \E e \in b : e.row = row
    THEN {IF e.row = row THEN [e EXCEPT !.copies = @ + 1] ELSE e : e \in b}
    ELSE b \cup {[row |-> row, copies |-> 1]}

RowKey(row) == <<row.url, row.chunk_idx>>

\* Rows of b that do not have the key of row.
WithoutKey(b, row) == {e \in b : RowKey(e.row) # RowKey(row)}

RECURSIVE BagSize(_)
BagSize(b) ==
    IF b = {} THEN 0
    ELSE LET e == CHOOSE x \in b : TRUE
         IN  e.copies + BagSize(b \ {e})

\* An upsert that first deletes the rows of the url from this index on.
UpsertRow_truncate(b, row) ==
    BagAdd({e \in b : e.row.url # row.url \/ e.row.chunk_idx < row.chunk_idx}, row)

\* INSERT ... ON CONFLICT (url, chunk_idx) DO UPDATE, one row.
UpsertRow(b, row) == BagAdd(WithoutKey(b, row), row)

\* A plain insert: no conflict target, no unique key.
RECURSIVE StoreUpsert_insert(_, _)
StoreUpsert_insert(b, rows) ==
    IF rows = <<>> THEN b
    ELSE StoreUpsert_insert(BagAdd(b, Head(rows)), Tail(rows))

\* table('pages_chunks').upsert(chunks_data, on_conflict='url, chunk_idx')
RECURSIVE StoreUpsert(_, _)
StoreUpsert(b, rows) ==
    IF rows = <<>> THEN b
    ELSE StoreUpsert(UpsertRow(b, Head(rows)), Tail(rows))

\* How a call to the store can end: it returns a response with .data, it
\* returns one without, or it raises.  A call that fails changes nothing.
StoreOutcomes == {"ok", "no_data", "raise"}

\* upsert_chunks(supabase_client, chunks_data) -> the table afterwards and
\* the returned {"success", "error"}.
upsert_chunks(b, chunks_data, outcome) ==
    IF chunks_data = <<>> THEN [store |-> b, success |-> 0, error |-> 0]
    ELSE IF outcome = "ok"
         THEN [store |-> StoreUpsert(b, chunks_data),
               success |-> Len(chunks_data), error |-> 0]
         ELSE [store |-> b, success |-> 0, error |-> Len(chunks_data)]

\* check_pages_chunks_table: the number of rows, 0 when the query fails.
check_pages_chunks_table(b, outcome) == IF outcome = "ok" THEN BagSize(b) ELSE 0

\* clear_pages_chunks_table: the table afterwards.
clear_pages_chunks_table(b, outcome) == IF outcome = "ok" THEN EmptyStore ELSE b

(***************************************************************************)
(* embed_to_supabase.py : main, the body of the loop over batches          *)
(***************************************************************************)
\* Number of texts per embedding request (100 in the source; kept small
\* here so that a page of a few chunks has several batches).
BATCH_SIZE == 2

\* seq[j : j + BATCH_SIZE]
Slice(seq, from) == SubSeq(seq, from + 1, Min(from + BATCH_SIZE, Len(seq)))

ChunkTexts(objs) == [k \in 1..Len(objs) |-> objs[k].text]
ChunkTokens(objs) == [k \in 1..Len(objs) |-> objs[k].tokens]

\* An index counted inside the batch only.
ChunkIdx_inbatch(from, k) == k - 1

\* chunk_idx = j + k, k counted from 0 by enumerate.
ChunkIdx(from, k) == from + (k - 1)

\* The rows built from zip(chunk_batch, token_batch, embeddings).
ChunksData(url, from, chunk_batch, token_batch, embeddings) ==
    [k \in 1..Min(Len(chunk_batch), Len(embeddings)) |->
        [url |-> url, chunk_idx |-> ChunkIdx(from, k), content |-> chunk_batch[k],
         tokens |-> token_batch[k], embedding |-> embeddings[k]]]

\* "if not embeddings": None or an empty list.
NoEmbeddings(result) == result.none \/ result.vectors = <<>>

\* A loop body that skips a failed batch without counting it.
BatchEffect_uncounted(b, url, from, objs, result, outcome) ==
    IF NoEmbeddings(result)
    THEN [store |-> b, success |-> 0, error |-> 0]
    ELSE upsert_chunks(b, ChunksData(url, from, Slice(ChunkTexts(objs), from),
                                     Slice(ChunkTokens(objs), from), result.vectors),
                       outcome)

\* One iteration of "for j in range(0, len(chunks), BATCH_SIZE)" once
\* create_embedding has returned result: the table afterwards and what is
\* added to chunks_embedded (success) and to total_errors (error).
BatchEffect(b, url, from, objs, result, outcome) ==
    LET chunk_batch == Slice(ChunkTexts(objs), from)
        token_batch == Slice(ChunkTokens(objs), from)
    IN  IF NoEmbeddings(result)
        THEN [store |-> b, success |-> 0, error |-> Len(chunk_batch)]
        ELSE upsert_chunks(b, ChunksData(url, from, chunk_batch, token_batch,
                                         result.vectors), outcome)

(***************************************************************************)
(* embed_to_supabase.py : the process, from the module-level checks to     *)
(* the summary                                                             *)
(***************************************************************************)
\* exit_code while the process runs, and after exit(n) or a return of main.
Running == <<"running", 0>>

ExitStatus(n) == <<"exit", n>>

\* Largest number of rows of the 'pages' table.
MaxPages == 2

\* Largest number of runs of the script, one after the other.
MaxRuns == 2

NoDrift == [i \in 1..MaxWindows |-> 0]

Text(n) == [ntok |-> n, drift |-> NoDrift, blank |-> n = 0]

\* A text of n tokens, n > 0, made of whitespace only.
BlankText(n) == [ntok |-> n, drift |-> NoDrift, blank |-> TRUE]

\* A text of n tokens whose window w is re-encoded to 51 tokens more.
NoisyText(n, w) ==
    [ntok |-> n, drift |-> [i \in 1..MaxWindows |-> IF i = w THEN 51 ELSE 0],
     blank |-> FALSE]

\* Markdown of the pages of a run: empty, one chunk kept out of two
\* windows, four chunks.
RunTexts == {Text(0), NoisyText(401, 1), Text(1101)}

UrlName(k) == <<"url", k>>

\* The 'pages' tables: up to MaxPages rows, each with its own url.
RunPageLists ==
    UNION {{[k \in 1..n |-> [url |-> UrlName(k), markdown |-> md[k]]] :
              md \in [1..n -> RunTexts]} : n \in 0..MaxPages}

\* The pages of the one-page specification.
EmbedTexts == {NoisyText(400, 1), Text(400), NoisyText(1101, 2), Text(1101)}

\* One page of any of these texts, or a one-chunk page followed by a page
\* of one chunk, of a chunk that is dropped, of whitespace, or empty.
EmbedPageLists ==
    {<<[url |-> UrlName(1), markdown |-> md]>> : md \in EmbedTexts}
    \cup {<<[url |-> UrlName(1), markdown |-> Text(400)],
            [url |-> UrlName(2), markdown |-> md]>> :
               md \in {Text(400), NoisyText(400, 1), BlankText(1), Text(0)}}

\* SUPABASE_URL, SUPABASE_SERVICE_ROLE_KEY and OPENAI_API_KEY as os.environ.get
\* finds them: TRUE for a non-empty value, FALSE for None or "".
Environments == [SUPABASE_URL : BOOLEAN, SUPABASE_KEY : BOOLEAN, OPENAI_API_KEY : BOOLEAN]

FullEnvironment == [SUPABASE_URL |-> TRUE, SUPABASE_KEY |-> TRUE, OPENAI_API_KEY |-> TRUE]

\* A check that forgets the key of the embedding service.
all_supabase_only(e) == e.SUPABASE_URL /\ e.SUPABASE_KEY

\* all([SUPABASE_URL, SUPABASE_KEY, OPENAI_API_KEY])
all(e) == e.SUPABASE_URL /\ e.SUPABASE_KEY /\ e.OPENAI_API_KEY

\* The calls a run makes, in order, kept when the trace is on: to the store
\* (connect, ensure, clear, count, fetch, upsert) and to the embedding
\* service (embed), each with how it ended; the table as it was when the
\* run started; the list fetch_pages returned to main; and the embedding
\* batches of the run.
TraceOff == [on |-> FALSE, calls |-> <<>>, before |-> {}, fetched |-> <<>>, batches |-> <<>>]

TraceOn == [on |-> TRUE, calls |-> <<>>, before |-> {}, fetched |-> <<>>, batches |-> <<>>]

Called(op, outcome) == [op |-> op, outcome |-> outcome]

\* A batch of n chunks of url from offset j on: create_embedding returned
\* vectors or not, and how the upsert ended ("none" when there was none).
Batch(url, offset, n, embedded, upsert) ==
    [url |-> url, j |-> offset, n |-> n, embedded |-> embedded, upsert |-> upsert]

Record(entries) ==
    trace' = IF trace.on THEN [trace EXCEPT !.calls = @ \o entries] ELSE trace

CountersZero ==
    /\ chunks_embedded = 0
    /\ total_pages_processed = 0
    /\ total_chunks_embedded = 0
    /\ total_tokens = 0
    /\ total_errors = 0
    /\ initial_chunks_count = 0
    /\ final_chunks_count = 0

ResetCounters ==
    /\ chunks_embedded' = 0
    /\ total_pages_processed' = 0
    /\ total_chunks_embedded' = 0
    /\ total_tokens' = 0
    /\ total_errors' = 0
    /\ initial_chunks_count' = 0
    /\ final_chunks_count' = 0

counters == <<chunks_embedded, total_pages_processed, total_chunks_embedded,
              total_tokens, total_errors, initial_chunks_count, final_chunks_count>>

history == <<run_ok, prev_ok, prev_store, env>>

\* No process of embed_to_supabase has been started.
RunIdle ==
    /\ pc = "idle" /\ run = 0 /\ pages = <<>> /\ store = EmptyStore
    /\ p = 0 /\ chunk_objects = <<>> /\ j = 0
    /\ call = IdleCall /\ hist = <<>> /\ requests_log = <<>>
    /\ CountersZero
    /\ exit_code = Running
    /\ run_ok = TRUE /\ prev_ok = FALSE /\ prev_store = EmptyStore
    /\ env = FullEnvironment /\ trace = TraceOff

\* No chunker call is under way.
ChunkIdle ==
    /\ ck_mode = "none" /\ ck_markdown = EmptyMarkdown /\ ck_text = EmptyText
    /\ ck_html = EmptyDocument
    /\ ck_out = <<>> /\ ck_pc = "idle"

\* No crawl has been started.
CrawlIdle ==
    /\ cr_pc = "idle" /\ cr_run = 0 /\ cr_urls = <<>> /\ cr_failing = {}
    /\ cr_i = 0 /\ cr_db = {} /\ cr_conn = {} /\ cr_errors = 0
    /\ cr_attempted = <<>> /\ cr_before = {}

\* No process of generate_embeddings has been started.
GenIdle ==
    /\ gen_pc = "idle" /\ gen_env = FullEnvironment
    /\ gen_pages = <<>> /\ gen_store = EmptyStore /\ gen_i = 0
    /\ total_chunks_success = 0 /\ total_chunks_error = 0
    /\ gen_exit = Running

\* The process has ended (or was never started): after the summary, after
\* "No pages found", after one of the three exit(1), after a traceback.
Stopped ==
    pc \in {"idle", "done", "no_pages", "config_error", "connect_error",
            "table_error", "crashed"}

\* python embed_to_supabase.py, at most limit times.
StartRun(limit) ==
    /\ Stopped /\ run < limit
    /\ run' = run + 1
    /\ pc' = "boot"
    /\ exit_code' = Running
    /\ p' = 0 /\ chunk_objects' = <<>> /\ j' = 0
    /\ call' = IdleCall /\ hist' = <<>> /\ requests_log' = <<>>
    /\ ResetCounters
    /\ prev_ok' = (pc = "done" /\ run_ok)
    /\ prev_store' = IF pc = "done" /\ run_ok THEN store ELSE EmptyStore
    /\ run_ok' = TRUE
    /\ trace' = [trace EXCEPT !.calls = <<>>, !.fetched = <<>>, !.batches = <<>>,
                              !.before = IF trace.on THEN store ELSE @]
    /\ UNCHANGED <<pages, store, env, ck_vars, cr_vars, gen_vars>>

\* Module level: "if not all([SUPABASE_URL, SUPABASE_KEY, OPENAI_API_KEY])".
ConfigCheck ==
    /\ pc = "boot"
    /\ IF all(env) THEN pc' = "connect" /\ exit_code' = exit_code
       ELSE pc' = "config_error" /\ exit_code' = ExitStatus(1)
    /\ UNCHANGED <<run, pages, store, p, chunk_objects, j, call, hist,
                   requests_log, counters, history, trace, ck_vars, cr_vars, gen_vars>>

\* connect_to_supabase: exit(1) when create_client raises.
Connect ==
    /\ pc = "connect"
    /\ \E outcome \in {"ok", "raise"} :
          /\ IF outcome = "ok" THEN pc' = "ensure" /\ exit_code' = exit_code
             ELSE pc' = "connect_error" /\ exit_code' = ExitStatus(1)
          /\ Record(<<Called("connect", outcome)>>)
    /\ UNCHANGED <<run, pages, store, p, chunk_objects, j, call, hist,
                   requests_log, counters, history, ck_vars, cr_vars, gen_vars>>

\* ensure_pages_chunks_table: exit(1) when the probing select raises.
EnsureTable ==
    /\ pc = "ensure"
    /\ \E outcome \in {"ok", "raise"} :
          /\ IF outcome = "ok" THEN pc' = "clear" /\ exit_code' = exit_code
             ELSE pc' = "table_error" /\ exit_code' = ExitStatus(1)
          /\ Record(<<Called("ensure", outcome)>>)
    /\ UNCHANGED <<run, pages, store, p, chunk_objects, j, call, hist,
                   requests_log, counters, history, ck_vars, cr_vars, gen_vars>>

\* clear_pages_chunks_table(supabase_client); the returned bool is dropped.
ClearTable ==
    /\ pc = "clear"
    /\ \E outcome \in StoreOutcomes :
          /\ store' = clear_pages_chunks_table(store, outcome)
          /\ Record(<<Called("clear", outcome)>>)
    /\ pc' = "count"
    /\ UNCHANGED <<run, pages, p, chunk_objects, j, call, hist, requests_log,
                   counters, exit_code, history, ck_vars, cr_vars, gen_vars>>

\* initial_chunks_count = check_pages_chunks_table(supabase_client)
CountInitial ==
    /\ pc = "count"
    /\ \E outcome \in StoreOutcomes :
          /\ initial_chunks_count' = check_pages_chunks_table(store, outcome)
          /\ Record(<<Called("count", outcome)>>)
    /\ pc' = "fetch"
    /\ UNCHANGED <<run, pages, store, p, chunk_objects, j, call, hist, requests_log,
                   chunks_embedded, total_pages_processed, total_chunks_embedded,
                   total_tokens, total_errors, final_chunks_count, exit_code,
                   history, ck_vars, cr_vars, gen_vars>>

\* fetch_pages: [] when a query fails; main returns when the list is empty.
fetch_pages(table, outcome) == IF outcome = "ok" THEN table ELSE <<>>

FetchPages ==
    /\ pc = "fetch"
    /\ \E outcome \in StoreOutcomes :
          /\ IF fetch_pages(pages, outcome) = <<>>
             THEN pc' = "no_pages" /\ exit_code' = ExitStatus(0) /\ p' = p
             ELSE pc' = "page" /\ exit_code' = exit_code /\ p' = 1
          /\ trace' = IF trace.on
                      THEN [trace EXCEPT !.calls = Append(@, Called("fetch", outcome)),
                                         !.fetched = fetch_pages(pages, outcome)]
                      ELSE trace
    /\ UNCHANGED <<run, pages, store, chunk_objects, j, call, hist, requests_log,
                   counters, history, ck_vars, cr_vars, gen_vars>>

\* "if not url or not markdown: continue" and "if not chunk_objects: continue"
SkipsPage(page) ==
    page.url = NoValue \/ page.markdown.ntok = 0 \/ split_text(page.markdown) = <<>>

SkipPage ==
    /\ pc = "page" /\ p <= Len(pages)
    /\ SkipsPage(pages[p])
    /\ p' = p + 1
    /\ UNCHANGED <<pc, run, pages, store, chunk_objects, j, call, hist, requests_log,
                   counters, exit_code, history, trace, ck_vars, cr_vars, gen_vars>>

\* chunk_objects = split_text(markdown); chunks_embedded = 0
OpenPage ==
    /\ pc = "page" /\ p <= Len(pages)
    /\ ~SkipsPage(pages[p])
    /\ chunk_objects' = split_text(pages[p].markdown)
    /\ j' = 0
    /\ chunks_embedded' = 0
    /\ pc' = "batch"
    /\ UNCHANGED <<run, pages, store, p, call, hist, requests_log, total_pages_processed,
                   total_chunks_embedded, total_tokens, total_errors,
                   initial_chunks_count, final_chunks_count, exit_code, history,
                   trace, ck_vars, cr_vars, gen_vars>>

\* What the loop body writes once the batch at offset j is settled.
SettleBatch(effect) ==
    /\ store' = effect.store
    /\ chunks_embedded' = chunks_embedded + effect.success
    /\ total_errors' = total_errors + effect.error
    /\ run_ok' = (run_ok /\ effect.error = 0)
    /\ j' = j + BATCH_SIZE
    /\ pc' = "batch"
    /\ exit_code' = exit_code

\* KeyError out of create_embedding: nothing in main catches it.
Crash ==
    /\ pc' = "crashed" /\ exit_code' = ExitStatus(1)
    /\ UNCHANGED <<store, chunks_embedded, total_errors, run_ok, j>>

\* One iteration of the loop over batches, create_embedding included.
ProcessBatch(runs) ==
    /\ pc = "batch" /\ j < Len(chunk_objects)
    /\ \E resps \in runs, outcome \in StoreOutcomes :
          LET chunk_batch == Slice(ChunkTexts(chunk_objects), j)
              c == create_embedding(chunk_batch, resps)
          IN  IF c.status = "raised"
              THEN Crash /\ Record(<<Called("embed", "raise")>>)
              ELSE /\ SettleBatch(BatchEffect(store, pages[p].url, j, chunk_objects,
                                              c.result, outcome))
                   /\ trace' =
                        IF ~trace.on THEN trace
                        ELSE IF NoEmbeddings(c.result)
                        THEN [trace EXCEPT
                                 !.calls = Append(@, Called("embed", "none")),
                                 !.batches = Append(@, Batch(pages[p].url, j, Len(chunk_batch),
                                                             FALSE, "none"))]
                        ELSE [trace EXCEPT
                                 !.calls = @ \o <<Called("embed", "ok"), Called("upsert", outcome)>>,
                                 !.batches = Append(@, Batch(pages[p].url, j, Len(chunk_batch),
                                                             TRUE, outcome))]
    /\ UNCHANGED <<run, pages, p, chunk_objects, call, hist, requests_log,
                   total_pages_processed, total_chunks_embedded, total_tokens,
                   initial_chunks_count, final_chunks_count, prev_ok, prev_store,
                   env, ck_vars, cr_vars, gen_vars>>

\* After the last batch of the page: the per-page totals.
FinishPage ==
    /\ pc = "batch" /\ j >= Len(chunk_objects)
    /\ total_chunks_embedded' = total_chunks_embedded + chunks_embedded
    /\ total_tokens' = total_tokens + SumSeq(ChunkTokens(chunk_objects))
    /\ total_pages_processed' = total_pages_processed + 1
    /\ p' = p + 1
    /\ pc' = "page"
    /\ UNCHANGED <<run, pages, store, chunk_objects, j, call, hist, requests_log,
                   chunks_embedded, total_errors, initial_chunks_count,
                   final_chunks_count, exit_code, history, trace, ck_vars, cr_vars, gen_vars>>

\* After the last page: the final count and the printed summary.
Summary ==
    /\ pc = "page" /\ p > Len(pages)
    /\ \E outcome \in StoreOutcomes :
          /\ final_chunks_count' = check_pages_chunks_table(store, outcome)
          /\ Record(<<Called("count", outcome)>>)
    /\ pc' = "done"
    /\ exit_code' = ExitStatus(0)
    /\ UNCHANGED <<run, pages, store, p, chunk_objects, j, call, hist, requests_log,
                   chunks_embedded, total_pages_processed, total_chunks_embedded,
                   total_tokens, total_errors, initial_chunks_count, history,
                   ck_vars, cr_vars, gen_vars>>

Init ==
    /\ ChunkIdle /\ CrawlIdle /\ GenIdle
    /\ pc = "idle" /\ run = 0
    /\ pages \in RunPageLists
    /\ store = EmptyStore
    /\ p = 0 /\ chunk_objects = <<>> /\ j = 0
    /\ call = IdleCall /\ hist = <<>> /\ requests_log = <<>>
    /\ CountersZero
    /\ exit_code = Running
    /\ run_ok = TRUE /\ prev_ok = FALSE /\ prev_store = EmptyStore
    /\ env \in Environments /\ trace = TraceOff

Next ==
    \/ StartRun(MaxRuns)
    \/ ConfigCheck
    \/ Connect
    \/ EnsureTable
    \/ ClearTable
    \/ CountInitial
    \/ FetchPages
    \/ SkipPage
    \/ OpenPage
    \/ ProcessBatch(ResponseRuns)
    \/ FinishPage
    \/ Summary

Spec == Init /\ [][Next]_vars

(***************************************************************************)
(* TraceSpec: runs of embed_to_supabase with the trace of calls kept, over *)
(* one page whose markdown is rewritten between runs.                      *)
(***************************************************************************)
\* Markdown of the page: empty, one chunk, or four.
TraceTexts == {Text(0), Text(400), Text(1101)}

TracePageLists ==
    {<<>>} \cup {<<[url |-> UrlName(1), markdown |-> md]>> : md \in TraceTexts}

\* migrate_to_supabase.upload_to_supabase after a new crawl: the rows of
\* 'pages' are upserted by url with the markdown of the new crawl.
upload_to_supabase ==
    /\ Stopped /\ run >= 1
    /\ \E new \in TracePageLists :
          /\ Len(new) = Len(pages)
          /\ new # pages
          /\ pages' = new
    /\ UNCHANGED <<pc, run, store, p, chunk_objects, j, call, hist, requests_log,
                   counters, exit_code, history, trace, ck_vars, cr_vars, gen_vars>>

TraceInit ==
    /\ ChunkIdle /\ CrawlIdle /\ GenIdle
    /\ pc = "idle" /\ run = 0
    /\ pages \in TracePageLists
    /\ store = EmptyStore
    /\ p = 0 /\ chunk_objects = <<>> /\ j = 0
    /\ call = IdleCall /\ hist = <<>> /\ requests_log = <<>>
    /\ CountersZero
    /\ exit_code = Running
    /\ run_ok = TRUE /\ prev_ok = FALSE /\ prev_store = EmptyStore
    /\ env \in Environments /\ trace = TraceOn

TraceNext ==
    \/ StartRun(MaxRuns)
    \/ upload_to_supabase
    \/ ConfigCheck
    \/ Connect
    \/ EnsureTable
    \/ ClearTable
    \/ CountInitial
    \/ FetchPages
    \/ SkipPage
    \/ OpenPage
    \/ ProcessBatch(TraceResponseRuns)
    \/ FinishPage
    \/ Summary

TraceSpec == TraceInit /\ [][TraceNext]_vars

(***************************************************************************)
(* EmbedSpec: the loop of main over the pages, one HTTP request per step.  *)
(***************************************************************************)
\* chunk_batch = chunks[j:j+BATCH_SIZE]
ChunkBatch == Slice(ChunkTexts(chunk_objects), j)

\* embeddings = create_embedding(chunk_batch): the call is entered.
BeginBatch ==
    /\ pc = "batch" /\ j < Len(chunk_objects)
    /\ call' = NewCall
    /\ hist' = <<>>
    /\ pc' = "http"
    /\ UNCHANGED <<run, pages, store, p, chunk_objects, j, requests_log, counters,
                   exit_code, history, trace, ck_vars, cr_vars, gen_vars>>

\* requests.post(...) of the current attempt and what the loop does with
\* the response.
HttpAttempt(responses) ==
    /\ pc = "http" /\ call.status = "running"
    /\ \E resp \in responses :
          /\ call' = AttemptStep(call, ChunkBatch, resp)
          /\ hist' = Append(hist, resp)
    /\ requests_log' = Append(requests_log,
                               [p |-> p, j |-> j, n |-> Len(ChunkBatch),
                                ok |-> /\ call'.status = "returned"
                                       /\ Len(call'.result.vectors) = Len(ChunkBatch)])
    /\ pc' = CASE call'.status = "running" -> "http"
               [] call'.status = "raised" -> "crashed"
               [] OTHER -> "returned"
    /\ exit_code' = IF call'.status = "raised" THEN ExitStatus(1) ELSE exit_code
    /\ UNCHANGED <<run, pages, store, p, chunk_objects, j, counters, history, trace,
                   ck_vars, cr_vars, gen_vars>>

\* "if not embeddings: total_errors += len(chunk_batch); continue"
EmbeddingFailed ==
    /\ pc = "returned" /\ NoEmbeddings(call.result)
    /\ SettleBatch(BatchEffect(store, pages[p].url, j, chunk_objects, call.result, "ok"))
    /\ UNCHANGED <<run, pages, p, chunk_objects, call, hist, requests_log,
                   total_pages_processed, total_chunks_embedded, total_tokens,
                   initial_chunks_count, final_chunks_count, prev_ok, prev_store,
                   env, trace, ck_vars, cr_vars, gen_vars>>

\* chunks_data is built and upsert_chunks called; its counts are added.
UpsertBatch ==
    /\ pc = "returned" /\ ~NoEmbeddings(call.result)
    /\ \E outcome \in StoreOutcomes :
          SettleBatch(BatchEffect(store, pages[p].url, j, chunk_objects,
                                  call.result, outcome))
    /\ UNCHANGED <<run, pages, p, chunk_objects, call, hist, requests_log,
                   total_pages_processed, total_chunks_embedded, total_tokens,
                   initial_chunks_count, final_chunks_count, prev_ok, prev_store,
                   env, trace, ck_vars, cr_vars, gen_vars>>

\* main has fetched the pages and enters the loop over them.
EmbedInit ==
    /\ ChunkIdle /\ CrawlIdle /\ GenIdle
    /\ pc = "page" /\ run = 1
    /\ pages \in EmbedPageLists
    /\ store = EmptyStore
    /\ p = 1 /\ chunk_objects = <<>> /\ j = 0
    /\ call = IdleCall /\ hist = <<>> /\ requests_log = <<>>
    /\ CountersZero
    /\ exit_code = Running
    /\ run_ok = TRUE /\ prev_ok = FALSE /\ prev_store = EmptyStore
    /\ env = FullEnvironment /\ trace = TraceOff

EmbedNext ==
    \/ SkipPage
    \/ OpenPage
    \/ BeginBatch
    \/ HttpAttempt(Responses)
    \/ EmbeddingFailed
    \/ UpsertBatch
    \/ FinishPage
    \/ Summary

EmbedSpec == EmbedInit /\ [][EmbedNext]_vars

(***************************************************************************)
(* Properties of create_embedding and of the loop over batches (EmbedSpec) *)
(***************************************************************************)
IsRateLimit(resp) == resp.status = 429

IsOtherStatus(resp) ==
    resp.body = "error" /\ resp.status # 200 /\ resp.status # 429 /\ resp.status < 500

AllRateLimited == hist # <<>> /\ \A k \in 1..Len(hist) : IsRateLimit(hist[k])

\* C4: a batch that only ever gets 429 is requested at most RETRIES times,
\* sleeps 2^attempt seconds after the failed attempt number attempt (from
\* 0), and ends after the last attempt by returning None.
C4_RateLimitBackoff ==
    (pc \in {"http", "returned"} /\ AllRateLimited) =>
        /\ call.requests = Len(hist)
        /\ call.requests <= RETRIES
        /\ Len(call.waits) = Len(hist)
        /\ \A k \in 1..Len(hist) : call.waits[k] = 2 ^ (k - 1)
        /\ IF Len(hist) = RETRIES
           THEN pc = "returned" /\ call.status = "returned" /\ call.result = None
           ELSE pc = "http" /\ call.status = "running"

C4_Witness ==
    /\ pc = "returned" /\ AllRateLimited
    /\ Len(hist) = RETRIES /\ call.result.none

\* The call got 429 at attempt 0 and a well-formed 200 at attempt 1.
RetryThenSuccess ==
    /\ pc = "returned" /\ Len(hist) = 2
    /\ IsRateLimit(hist[1])
    /\ hist[2].status = 200 /\ hist[2].body = "data"

\* C5 as stated: 429 at attempt 0 then 200 at attempt 1: the wait between
\* the two requests is at least 2 seconds, the vectors of the second
\* response are returned, and the batch adds nothing to total_errors.
C5_AsStated ==
    /\ [](RetryThenSuccess =>
            /\ SumSeq(call.waits) >= 2
            /\ call.result = List(Vectors(ChunkBatch, hist[2])))
    /\ [][RetryThenSuccess => total_errors' = total_errors]_vars

\* C5 amended: 429 at attempt 0 then 200 at attempt 1: the wait between
\* the two requests is 2^0 = 1 second, the vectors of the second response
\* are returned, and the batch adds to total_errors only when the upsert of
\* its rows fails (nothing is stored then).
C5_RetryThenSuccess ==
    /\ [](RetryThenSuccess =>
            /\ call.requests = 2
            /\ SumSeq(call.waits) = 1
            /\ call.result = List(Vectors(ChunkBatch, hist[2])))
    /\ [][RetryThenSuccess =>
            \/ total_errors' = total_errors /\ store' # store
            \/ total_errors' = total_errors + Len(ChunkBatch) /\ store' = store]_vars

C5_Witness ==
    /\ pc = "batch" /\ j > 0 /\ Len(hist) = 2
    /\ IsRateLimit(hist[1]) /\ hist[2].body = "data"
    /\ total_errors = 0 /\ store # EmptyStore

\* hist with every 429 replaced by the status code.
ReplaceRateLimit(responses, code) ==
    [k \in 1..Len(responses) |->
        IF IsRateLimit(responses[k]) THEN ErrorResponse(code) ELSE responses[k]]

\* C6: replacing every 429 of a sequence of responses by a 5xx status
\* gives the same number of requests, the same waits (the one after the
\* last attempt included) and the same outcome.
C6_ServerErrorSamePolicy ==
    pc \in {"returned", "crashed"} =>
        \A code \in {500, 503} :
            LET other == create_embedding(ChunkBatch, ReplaceRateLimit(hist, code))
            IN  /\ other.requests = call.requests
                /\ other.waits = call.waits
                /\ other.status = call.status
                /\ other.result = call.result

\* C7: a response that is not 200, not 429 and not 5xx ends the call at
\* once, at whatever attempt: it is the last request of the batch, no sleep
\* follows it, and the call returns None.
C7_OtherStatusStops ==
    pc \in {"http", "returned"} =>
        \A k \in 1..Len(hist) :
            IsOtherStatus(hist[k]) =>
                /\ k = Len(hist)
                /\ pc = "returned" /\ call.status = "returned"
                /\ call.result = None
                /\ call.requests = k
                /\ Len(call.waits) = k - 1

C7_Witness ==
    /\ pc = "returned" /\ Len(hist) = 2 /\ IsOtherStatus(hist[2])
    /\ call.result.none

\* Offsets of the batches of a chunk list.
BatchOffsets(objs) == {b \in 0..(Len(objs) - 1) : b % BATCH_SIZE = 0}

\* The requests issued for page q, in order.
LogOf(q) == SelectSeq(requests_log, LAMBDA e : e.p = q)

\* C3: when create_embedding returns no vectors for a batch, total_errors
\* grows by the size of the batch, no row is written, and the loop goes on
\* with the next batch; every batch of every page with chunks has been
\* submitted when the summary is reached, and only an exception raised
\* inside create_embedding stops the loop.
C3_FailedBatchIsolated ==
    /\ [][(pc = "returned" /\ NoEmbeddings(call.result)) =>
            /\ total_errors' = total_errors + Len(ChunkBatch)
            /\ store' = store
            /\ pc' = "batch" /\ p' = p /\ j' = j + BATCH_SIZE]_vars
    /\ [](pc = "done" =>
            \A q \in 1..Len(pages) :
                ~SkipsPage(pages[q]) =>
                    \A b \in BatchOffsets(split_text(pages[q].markdown)) :
                        \E i \in 1..Len(requests_log) :
                            requests_log[i].p = q /\ requests_log[i].j = b)
    /\ [](pc = "crashed" => call.status = "raised")

\* A batch of page 1 failed and a batch of page 2 was stored afterwards.
C3_Witness ==
    /\ pc = "done" /\ total_errors > 0
    /\ \E i \in 1..Len(requests_log) : requests_log[i].p = 1 /\ ~requests_log[i].ok
    /\ \E e \in store : e.row.url = UrlName(2)

CeilDiv(n, b) == (n + b - 1) \div b

\* Page q is finished and each of its requests brought vectors back.
AllFirstAttempt(q) ==
    /\ q < p
    /\ ~SkipsPage(pages[q])
    /\ \A i \in 1..Len(LogOf(q)) : LogOf(q)[i].ok

\* C8: a page of N chunks whose requests all succeed at the first attempt
\* takes exactly ceil(N / BATCH_SIZE) requests, in input order, of 1 to
\* BATCH_SIZE texts each; a stored row at chunk_idx c holds chunk c of the
\* page and the vector returned for it, and all N rows are stored when no
\* upsert failed.
C8_BatchingCorrect ==
    \A q \in 1..Len(pages) :
        AllFirstAttempt(q) =>
            LET objs == split_text(pages[q].markdown)
                N == Len(objs)
                log == LogOf(q)
                rows == {e \in store : e.row.url = pages[q].url}
            IN  /\ Len(log) = CeilDiv(N, BATCH_SIZE)
                /\ \A i \in 1..Len(log) :
                      /\ log[i].j = (i - 1) * BATCH_SIZE
                      /\ log[i].n >= 1 /\ log[i].n <= BATCH_SIZE
                      /\ log[i].n = Min(BATCH_SIZE, N - log[i].j)
                /\ \A e \in rows :
                      /\ e.copies = 1
                      /\ e.row.chunk_idx \in 0..(N - 1)
                      /\ e.row.content = objs[e.row.chunk_idx + 1].text
                      /\ e.row.tokens = objs[e.row.chunk_idx + 1].tokens
                      /\ e.row.embedding.of = e.row.content
                /\ run_ok => {e.row.chunk_idx : e \in rows} = 0..(N - 1)

C8_Witness ==
    /\ pc = "done" /\ run_ok /\ AllFirstAttempt(1)
    /\ Len(split_text(pages[1].markdown)) > BATCH_SIZE
    /\ BagSize(store) = Len(split_text(pages[1].markdown))

RowsOfUrl(b, url) == {e \in b : e.row.url = url}

\* The markdown is empty or made of whitespace only.
IsBlankText(text) == text.blank

\* C14: both chunkers return an empty list for an empty input and for an
\* input made only of whitespace, and for a page with such a markdown the
\* loop of main issues no embedding request and writes no row.
C14_BlankInputNoChunks ==
    /\ \A text \in Markdowns : IsBlankMarkdown(text) => split_text_into_chunks(text) = <<>>
    /\ \A q \in 1..Len(pages) :
          (q < p /\ IsBlankText(pages[q].markdown)) =>
              /\ split_text(pages[q].markdown) = <<>>
              /\ LogOf(q) = <<>>
              /\ RowsOfUrl(store, pages[q].url) = {}

\* Page q has been through the loop over its batches.
Processed(q) == q < p /\ ~SkipsPage(pages[q])

\* C16: once the loop is done with a page, whatever batches failed, the
\* rows stored for its url have the chunk_idx values 0 .. n-1 for some n,
\* one row each, and the row at chunk_idx i holds chunk i of split_text.
C16_ChunkIdxContiguous ==
    \A q \in 1..Len(pages) :
        Processed(q) =>
            LET rows == RowsOfUrl(store, pages[q].url)
                objs == split_text(pages[q].markdown)
            IN  /\ {e.row.chunk_idx : e \in rows} = 0..(Cardinality(rows) - 1)
                /\ \A e \in rows :
                      /\ e.copies = 1
                      /\ e.row.chunk_idx < Len(objs)
                      /\ e.row.content = objs[e.row.chunk_idx + 1].text

\* All the chunks split_text gave for the pages counted as processed.
RECURSIVE ChunksProduced(_)
ChunksProduced(q) ==
    IF q = 0 THEN 0
    ELSE ChunksProduced(q - 1)
         + (IF SkipsPage(pages[q]) THEN 0 ELSE Len(split_text(pages[q].markdown)))

\* C19: at the summary, total_chunks_embedded + total_errors is the number
\* of chunks split_text produced over the pages counted in
\* total_pages_processed: every chunk is counted once, as embedded or as
\* an error.
C19_EveryChunkCounted ==
    pc = "done" =>
        /\ total_pages_processed = Cardinality({q \in 1..Len(pages) : ~SkipsPage(pages[q])})
        /\ total_chunks_embedded + total_errors = ChunksProduced(Len(pages))

(***************************************************************************)
(* Properties of whole runs of embed_to_supabase (Spec)                    *)
(***************************************************************************)
\* (url, chunk_idx, content) of every row, with the number of copies.
Contents(b) ==
    {<<e.row.url, e.row.chunk_idx, e.row.content, e.copies>> : e \in b}


UniqueKeys(b) ==
    \A e1, e2 \in b :
        /\ e1.copies = 1
        /\ RowKey(e1.row) = RowKey(e2.row) => e1 = e2

\* C1: when two runs in a row over the same pages both reach their summary
\* with every embedding and every upsert succeeding, the table after the
\* second run has as many rows as after the first, as many rows per url,
\* the same content at every (url, chunk_idx), and no key twice.
C1_SecondRunIdempotent ==
    (run >= 2 /\ pc = "done" /\ run_ok /\ prev_ok) =>
        /\ BagSize(store) = BagSize(prev_store)
        /\ \A q \in 1..Len(pages) :
              BagSize(RowsOfUrl(store, pages[q].url))
                  = BagSize(RowsOfUrl(prev_store, pages[q].url))
        /\ Contents(store) = Contents(prev_store)
        /\ UniqueKeys(store)

C1_Witness ==
    /\ run = 2 /\ pc = "done" /\ run_ok /\ prev_ok
    /\ BagSize(store) > BATCH_SIZE

\* C10: with the configuration present, no failure of a unit of work ends
\* the run early: the process never stops on a missing table, on a failed
\* fetch of a table that has pages, or on a malformed service response.
C10_OnlyConfigurationStops ==
    /\ pc # "table_error"
    /\ pc # "crashed"
    /\ ~(pc = "no_pages" /\ pages # <<>>)

(***************************************************************************)
(* Properties of traced runs of embed_to_supabase (TraceSpec)              *)
(***************************************************************************)
Last(seq) == seq[Len(seq)]

\* Positions in the trace of the calls op, and of those that failed.
Calls(tr, op) == {k \in 1..Len(tr.calls) : tr.calls[k].op = op}

FailedCalls(tr, op) == {k \in Calls(tr, op) : tr.calls[k].outcome # "ok"}

\* Calls to clear, count and upsert of the run that failed.
FailedStoreCalls(tr) ==
    FailedCalls(tr, "clear") \cup FailedCalls(tr, "count") \cup FailedCalls(tr, "upsert")

\* This step ends with a call op to the store that failed.
FailsNow(op) ==
    /\ Len(trace'.calls) > Len(trace.calls)
    /\ Last(trace'.calls).op = op
    /\ Last(trace'.calls).outcome # "ok"

\* The run goes on after this step: to the next statement of main, or to
\* the end of main after the summary.
GoesOn == pc' \in {"count", "fetch", "batch", "done"} /\ exit_code' # ExitStatus(1)

\* C11: a failed upsert, a failed clear and a failed count each increase
\* the error count of the summary, and none of them ends the run.
C11_StoreFailuresCounted ==
    /\ [][(FailsNow("upsert") \/ FailsNow("clear") \/ FailsNow("count")) =>
            total_errors' > total_errors /\ GoesOn]_vars
    /\ [](pc = "done" => total_errors >= Cardinality(FailedStoreCalls(trace)))

\* C12: a process started with one of SUPABASE_URL,
\* SUPABASE_SERVICE_ROLE_KEY, OPENAI_API_KEY missing exits with status 1
\* once its configuration check has run: it has made no call to the store
\* (connect, ensure, clear, count, fetch, upsert), no embedding request,
\* and has processed no page; the table is as it was.
C12_ConfigErrorStopsFirst ==
    (run >= 1 /\ pc # "boot" /\ ~(env.SUPABASE_URL /\ env.SUPABASE_KEY /\ env.OPENAI_API_KEY)) =>
        /\ pc = "config_error"
        /\ exit_code = ExitStatus(1)
        /\ trace.calls = <<>>
        /\ store = trace.before
        /\ p = 0 /\ chunk_objects = <<>>
        /\ total_pages_processed = 0 /\ total_chunks_embedded = 0

C12_Witness ==
    /\ pc = "config_error" /\ exit_code = ExitStatus(1)
    /\ env.SUPABASE_URL /\ env.SUPABASE_KEY /\ ~env.OPENAI_API_KEY
    /\ pages # <<>>

\* Rows the table held for a url when the run started whose chunk_idx is
\* not below n.
StaleRows(url, n) == {e \in trace.before : e.row.url = url /\ e.row.chunk_idx >= n}

\* Page q has been processed by this run and gave fewer chunks than the
\* rows the table held for its url.
Shrunk(q) ==
    /\ q < p
    /\ ~SkipsPage(trace.fetched[q])
    /\ StaleRows(trace.fetched[q].url, Len(split_text(trace.fetched[q].markdown))) # {}

\* C17 as stated: the stale rows of a url that now yields fewer chunks are
\* still in the table after the run.
C17_AsStated ==
    pc = "done" =>
        \A q \in 1..Len(trace.fetched) :
            Shrunk(q) =>
                StaleRows(trace.fetched[q].url,
                          Len(split_text(trace.fetched[q].markdown))) \subseteq store

\* C17 amended: the upserts of a run delete nothing: when the clear at the
\* start of the run failed, the stale rows of a url that now yields fewer
\* chunks are still in the table after the run; when the clear succeeded,
\* no row from before the run is left, stale or not, beyond those the run
\* wrote again.
C17_StaleRowsOutliveUpserts ==
    \A q \in 1..Len(trace.fetched) :
        Shrunk(q) =>
            LET url == trace.fetched[q].url
                n == Len(split_text(trace.fetched[q].markdown))
            IN  IF FailedCalls(trace, "clear") # {}
                THEN StaleRows(url, n) \subseteq store
                ELSE /\ StaleRows(url, n) \cap store = {}
                     /\ \A e \in RowsOfUrl(store, url) : e.row.chunk_idx < n

C17_Witness ==
    /\ pc = "done" /\ Len(trace.fetched) = 1 /\ Shrunk(1)
    /\ FailedCalls(trace, "clear") # {}
    /\ total_chunks_embedded > 0
    /\ \E e \in store : e.row.chunk_idx >= Len(split_text(trace.fetched[1].markdown))

\* The (url, chunk_idx) of every chunk of the batches of the run for which
\* create_embedding returned vectors and the upsert succeeded.
SucceededKeys(tr) ==
    UNION {{<<tr.batches[k].url, tr.batches[k].j + i>> : i \in 0..(tr.batches[k].n - 1)} :
              k \in {k \in 1..Len(tr.batches) :
                        tr.batches[k].embedded /\ tr.batches[k].upsert = "ok"}}

DistinctUrls(list) == \A a, b \in 1..Len(list) : list[a].url = list[b].url => a = b

\* The run printed its summary, its clear succeeded and so did its two
\* counts, and the pages it fetched have distinct urls.
CleanCountedRun ==
    /\ pc = "done"
    /\ DistinctUrls(trace.fetched)
    /\ Calls(trace, "clear") # {} /\ FailedCalls(trace, "clear") = {}
    /\ Cardinality(Calls(trace, "count")) = 2 /\ FailedCalls(trace, "count") = {}

\* C21: in a run over pages with distinct urls whose clear and two counts
\* succeeded, the final row count minus the initial row count ("Net chunks
\* added") is total_chunks_embedded, and the keys in the store are exactly
\* the (url, chunk_idx) of the batches whose embedding and upsert both
\* succeeded.
C21_NetChunksAdded ==
    CleanCountedRun =>
        /\ final_chunks_count - initial_chunks_count = total_chunks_embedded
        /\ {RowKey(e.row) : e \in store} = SucceededKeys(trace)

(***************************************************************************)
(* crawl_hotchkiss.py : crawl_all                                          *)
(***************************************************************************)
\* Largest length of url_list.
MaxUrls == 3

\* Largest number of crawls, one after the other, on the same database.
MaxCrawls == 2

CrawlUrls == {"a", "b", "c"}

UrlLists == UNION {[1..n -> CrawlUrls] : n \in 0..MaxUrls}

Range(f) == {f[x] : x \in DOMAIN f}

\* The row a crawl writes for the url at position pos of url_list; crawl
\* and pos stand for the title, markdown and crawled_at of that visit.
PageRow(url, crawl, pos) == [url |-> url, crawl |-> crawl, pos |-> pos]

\* INSERT OR REPLACE INTO pages ..., url being the primary key.
InsertOrReplace(table, row) == {r \in table : r.url # row.url} \cup {row}

\* A loop whose except clause lets the exception go on.
CrawlBody_reraise(st, url, crawl, fails) ==
    IF fails
    THEN [st EXCEPT !.errors = @ + 1, !.escaped = TRUE]
    ELSE [st EXCEPT !.conn = InsertOrReplace(st.conn, PageRow(url, crawl, st.i)),
                    !.i = @ + 1]

\* The body of "for url in url_list": the try block up to the INSERT, or
\* the except clause that prints the error.
CrawlBody(st, url, crawl, fails) ==
    IF fails
    THEN [st EXCEPT !.errors = @ + 1, !.i = @ + 1]
    ELSE [st EXCEPT !.conn = InsertOrReplace(st.conn, PageRow(url, crawl, st.i)),
                    !.i = @ + 1]

\* conn = db(); the browser, the context and the page are opened.
CrawlStart ==
    /\ cr_pc \in {"idle", "done", "failed"} /\ cr_run < MaxCrawls
    /\ cr_run' = cr_run + 1
    /\ cr_failing' \in SUBSET Range(cr_urls)
    /\ cr_conn' = cr_db
    /\ cr_before' = cr_db
    /\ cr_i' = 1
    /\ cr_errors' = 0
    /\ cr_attempted' = <<>>
    /\ cr_pc' = "loop"
    /\ UNCHANGED <<cr_urls, cr_db, ck_vars, run_vars, gen_vars>>

\* One url of the list.
CrawlUrl ==
    /\ cr_pc = "loop" /\ cr_i <= Len(cr_urls)
    /\ LET url == cr_urls[cr_i]
           st == CrawlBody([conn |-> cr_conn, errors |-> cr_errors, i |-> cr_i,
                            escaped |-> FALSE],
                           url, cr_run, url \in cr_failing)
       IN  /\ cr_attempted' = Append(cr_attempted, url)
           /\ cr_conn' = st.conn
           /\ cr_errors' = st.errors
           /\ cr_i' = st.i
           /\ cr_pc' = IF st.escaped THEN "failed" ELSE "loop"
    /\ UNCHANGED <<cr_run, cr_urls, cr_failing, cr_db, cr_before,
                   ck_vars, run_vars, gen_vars>>

\* After the loop: the context and browser are closed, conn.commit(),
\* conn.close().
CrawlFinish ==
    /\ cr_pc = "loop" /\ cr_i > Len(cr_urls)
    /\ cr_db' = cr_conn
    /\ cr_pc' = "done"
    /\ UNCHANGED <<cr_run, cr_urls, cr_failing, cr_i, cr_conn, cr_errors,
                   cr_attempted, cr_before, ck_vars, run_vars, gen_vars>>

CrawlInit ==
    /\ RunIdle /\ ChunkIdle /\ GenIdle
    /\ cr_pc = "idle" /\ cr_run = 0
    /\ cr_urls \in UrlLists
    /\ cr_failing = {}
    /\ cr_i = 0 /\ cr_db = {} /\ cr_conn = {} /\ cr_errors = 0
    /\ cr_attempted = <<>> /\ cr_before = {}

CrawlNext == CrawlStart \/ CrawlUrl \/ CrawlFinish

CrawlSpec == CrawlInit /\ [][CrawlNext]_vars

\* The urls of the list that did not fail in this crawl.
CrawledOk == Range(cr_urls) \ cr_failing

OneRowPerUrl(table) == \A r1, r2 \in table : r1.url = r2.url => r1 = r2

\* The crawl went through the whole list and no exception left the loop.
CrawlCompleted ==
    /\ cr_attempted = cr_urls
    /\ cr_errors = Cardinality({k \in 1..Len(cr_urls) : cr_urls[k] \in cr_failing})

\* Three different urls, the second one failing.
SecondOfThreeFails ==
    /\ Len(cr_urls) = 3 /\ Cardinality(Range(cr_urls)) = 3
    /\ cr_failing = {cr_urls[2]}

\* C9 as stated: after a crawl the pages table holds a row for exactly the
\* urls that did not fail, one per url; every url was attempted and no
\* exception escaped; with the second of 3 urls failing, 2 rows and 1 error.
C9_AsStated ==
    /\ cr_pc # "failed"
    /\ cr_pc = "done" =>
        /\ {r.url : r \in cr_db} = CrawledOk
        /\ OneRowPerUrl(cr_db)
        /\ CrawlCompleted
        /\ SecondOfThreeFails =>
              /\ {r.url : r \in cr_db} = {cr_urls[1], cr_urls[3]}
              /\ Cardinality(cr_db) = 2 /\ cr_errors = 1

\* C9 amended: a crawl writes a row for exactly the urls that did not
\* fail and leaves the rows of every other url as they were before it, one
\* row per url; every url was attempted and no exception escaped; on a
\* table that was empty before the crawl, with the second of 3 urls
\* failing, the table holds 2 rows (urls 1 and 3) and 1 error is reported.
C9_CrawlFaultTolerant ==
    /\ cr_pc # "failed"
    /\ cr_pc = "done" =>
        /\ {r.url : r \in cr_db \ cr_before} = CrawledOk
        /\ \A r \in cr_db : r.url \in CrawledOk => r.crawl = cr_run
        /\ {r \in cr_db : r.url \notin CrawledOk}
               = {r \in cr_before : r.url \notin CrawledOk}
        /\ OneRowPerUrl(cr_db)
        /\ CrawlCompleted
        /\ (SecondOfThreeFails /\ cr_before = {}) =>
              /\ {r.url : r \in cr_db} = {cr_urls[1], cr_urls[3]}
              /\ Cardinality(cr_db) = 2 /\ cr_errors = 1

C9_Witness ==
    /\ cr_pc = "done" /\ SecondOfThreeFails /\ cr_before = {}
    /\ Cardinality(cr_db) = 2 /\ cr_errors = 1

(***************************************************************************)
(* ChunkSpec: the chunkers and main_html applied to every input of the     *)
(* bounded sets.                                                           *)
(***************************************************************************)
\* The example of thresholds the specification works through: target 15,
\* max 25, on paragraphs of a few tokens.
ScenarioLimits == [target |-> 15, max |-> 25]

ScenarioMarkdowns ==
    {t \in MarkdownsOf({10, 15, 16}) : t.tail = "" /\ \A k \in 1..Len(t.segs) : t.segs[k].gap = "blank"}

ChunkInit ==
    /\ RunIdle /\ CrawlIdle /\ GenIdle
    /\ ck_pc = "input"
    /\ ck_out = <<>>
    /\ \/ /\ ck_mode = "paragraph" /\ ck_markdown \in Markdowns
          /\ ck_text = EmptyText /\ ck_html = EmptyDocument
       \/ /\ ck_mode = "scenario" /\ ck_markdown \in ScenarioMarkdowns
          /\ ck_text = EmptyText /\ ck_html = EmptyDocument
       \/ /\ ck_mode = "token" /\ ck_text \in Texts
          /\ ck_markdown = EmptyMarkdown /\ ck_html = EmptyDocument
       \/ /\ ck_mode = "html" /\ ck_html \in Documents
          /\ ck_markdown = EmptyMarkdown /\ ck_text = EmptyText

\* The thresholds the paragraph chunker runs with.
Limits == IF ck_mode = "scenario" THEN ScenarioLimits ELSE CodeLimits

RunSplitTextIntoChunks ==
    /\ ck_pc = "input" /\ ck_mode \in {"paragraph", "scenario"}
    /\ ck_out' = SplitWith(Limits, ck_markdown)
    /\ ck_pc' = "done"
    /\ UNCHANGED <<ck_mode, ck_markdown, ck_text, ck_html, run_vars, cr_vars, gen_vars>>

RunSplitText ==
    /\ ck_pc = "input" /\ ck_mode = "token"
    /\ ck_out' = split_text(ck_text)
    /\ ck_pc' = "done"
    /\ UNCHANGED <<ck_mode, ck_markdown, ck_text, ck_html, run_vars, cr_vars, gen_vars>>

RunMainHtml ==
    /\ ck_pc = "input" /\ ck_mode = "html"
    /\ ck_out' = main_html(ck_html)
    /\ ck_pc' = "done"
    /\ UNCHANGED <<ck_mode, ck_markdown, ck_text, ck_html, run_vars, cr_vars, gen_vars>>

ChunkNext == RunSplitTextIntoChunks \/ RunSplitText \/ RunMainHtml

ChunkSpec == ChunkInit /\ [][ChunkNext]_vars

\* Token count of an emitted chunk, whichever chunker emitted it.
EmittedTokens(c) == IF ck_mode = "paragraph" THEN c.token_count ELSE c.tokens

HardCap == IF ck_mode = "paragraph" THEN MAX_TOKENS_PER_CHUNK ELSE SKIP_ABOVE_TOKENS

\* C2: every chunk emitted by either chunker has a token count of at most
\* that chunker's hard cap (450 for split_text, 500 for
\* split_text_into_chunks).
C2_ChunkWithinCap ==
    (ck_pc = "done" /\ ck_mode \in {"paragraph", "token"}) =>
        \A i \in 1..Len(ck_out) : EmittedTokens(ck_out[i]) <= HardCap

\* The paragraphs of the input, and the positions of paragraphs the chunks
\* hold, one chunk after the other.
InputParagraphs == Paragraphs(ck_markdown.segs, 1)

RECURSIVE Flatten(_)
Flatten(chunks) ==
    IF chunks = <<>> THEN <<>> ELSE Head(chunks).paras \o Flatten(Tail(chunks))

\* Token count of the paragraphs at positions ps.
RECURSIVE TokensOf(_)
TokensOf(ps) ==
    IF ps = <<>> THEN 0 ELSE InputParagraphs[Head(ps)].tokens + TokensOf(Tail(ps))

\* The paragraphs are the maximal runs of blocks that no blank-line
\* separator cuts: they cover the blocks in order, a paragraph starts after
\* a "blank" gap (or at the start) and has only "newline" gaps inside.
MaximalRuns(segs, paragraphs) ==
    /\ (segs = <<>>) = (paragraphs = <<>>)
    /\ \A i \in 1..Len(paragraphs) :
          /\ paragraphs[i].first = IF i = 1 THEN 1 ELSE paragraphs[i - 1].last + 1
          /\ paragraphs[i].first <= paragraphs[i].last
          /\ i = Len(paragraphs) => paragraphs[i].last = Len(segs)
          /\ i > 1 => segs[paragraphs[i].first].gap = "blank"
          /\ \A k \in (paragraphs[i].first + 1)..paragraphs[i].last : segs[k].gap = "newline"

\* C13: split_text_into_chunks never splits a paragraph: the paragraphs
\* are the maximal runs of text between blank-line separators; each one is
\* in exactly one chunk, whole (the chunk's token count is the sum of its
\* paragraphs'), and the chunks' paragraph lists, one after the other, are
\* the paragraph list of the input in source order.
C13_ParagraphsKeptWhole ==
    (ck_pc = "done" /\ ck_mode \in {"paragraph", "scenario"}) =>
        /\ MaximalRuns(ck_markdown.segs, InputParagraphs)
        /\ Flatten(ck_out) = [i \in 1..Len(InputParagraphs) |-> i]
        /\ \A c \in 1..Len(ck_out) : ck_out[c].token_count = TokensOf(ck_out[c].paras)

C13_Witness ==
    /\ ck_pc = "done" /\ ck_mode = "paragraph"
    /\ Len(ck_markdown.segs) = 3 /\ Len(InputParagraphs) = 2
    /\ InputParagraphs[1].last = 2
    /\ InputParagraphs[1].tokens > MAX_TOKENS_PER_CHUNK
    /\ Len(ck_out) = 2

\* Token count of the first k paragraphs of a chunk.
PrefixTokens(chunk, k) == TokensOf(SubSeq(chunk.paras, 1, k))

\* C18: the chunk being built is flushed before an append only when it is
\* not empty and the append would take it above the max, and right after
\* an append exactly when it has reached the target.  On the output: no
\* chunk is empty; no chunk had reached the target before its last
\* paragraph; inside a chunk no append went above the max; a chunk that is
\* followed by another either reached the target or could not take the
\* next paragraph without going above the max.  Paragraphs of 10 and 10
\* tokens with target 15 and max 25 give one chunk of 20 tokens.
C18_FlushRule ==
    (ck_pc = "done" /\ ck_mode \in {"paragraph", "scenario"}) =>
        /\ \A c \in 1..Len(ck_out) :
              LET chunk == ck_out[c]
                  n == Len(chunk.paras)
              IN  /\ n >= 1
                  /\ \A k \in 1..(n - 1) :
                        /\ PrefixTokens(chunk, k) < Limits.target
                        /\ PrefixTokens(chunk, k + 1) <= Limits.max
                  /\ c < Len(ck_out) =>
                        \/ chunk.token_count >= Limits.target
                        \/ chunk.token_count
                             + InputParagraphs[Head(ck_out[c + 1].paras)].tokens > Limits.max
        /\ (ck_mode = "scenario" /\ ParagraphTokenCounts(ck_markdown) = <<10, 10>>) =>
              ck_out = <<[paras |-> <<1, 2>>, token_count |-> 20]>>

C18_Witness ==
    /\ ck_pc = "done" /\ ck_mode = "scenario"
    /\ ParagraphTokenCounts(ck_markdown) = <<10, 10>>
    /\ Len(ck_out) = 1 /\ ck_out[1].token_count = 20

\* The element is in the document once the fsNavigation elements are gone.
Exists(name) == ck_html[name] = "present"

Chain == <<"main", "div", "body">>

PAGE_BATCH_SIZE == 2

\* Most rows of the 'pages' table when generate_embeddings runs.
MaxGenPages == 3

\* A markdown of paragraphs separated by blank lines.
MarkdownOf(counts) ==
    [segs |-> [k \in 1..Len(counts) |-> [gap |-> "blank", tokens |-> counts[k]]],
     tail |-> ""]

WhitespaceMarkdown == [segs |-> <<>>, tail |-> "space"]

\* Whitespace, one chunk, two chunks.
GenMarkdowns == {WhitespaceMarkdown, MarkdownOf(<<100>>), MarkdownOf(<<400, 400>>)}

\* The 'pages' table: one row per url.
GenPageLists ==
    UNION {[1..n -> GenMarkdowns] : n \in 1..MaxGenPages}

GenPages(mds) == [k \in 1..Len(mds) |-> [url |-> UrlName(k), markdown |-> mds[k]]]

\* [0.0] * 1536
ZeroVector == [of |-> [paras |-> <<>>, token_count |-> 0], payload |-> 0]

\* generate_embedding: the vector of response.data[0], or the zero vector
\* when embeddings.create (or reading its response) raises.
generate_embedding(text, outcome) ==
    IF outcome = "data" THEN [of |-> text, payload |-> 1]
    ELSE ZeroVector

\* process_page, with the set of chunk positions whose request raises.
process_page(page, failing) ==
    IF IsBlankMarkdown(page.markdown) THEN <<>>
    ELSE LET chunks == split_text_into_chunks(page.markdown)
         IN  [i \in 1..Len(chunks) |->
                 [url |-> page.url,
                  chunk_idx |-> i - 1,
                  content |-> chunks[i],
                  embedding |-> generate_embedding(chunks[i],
                                    IF i \in failing THEN "raise" ELSE "data")]]

\* A row of chunks has the (url, chunk_idx) of a row of the table.
Conflicts(b, chunks) ==
    \E k \in 1..Len(chunks) : \E e \in b : RowKey(e.row) = RowKey(chunks[k])

RECURSIVE InsertRows(_, _)
InsertRows(b, rows) ==
    IF rows = <<>> THEN b
    ELSE InsertRows(BagAdd(b, Head(rows)), Tail(rows))

\* upsert_chunks of generate_embeddings: table('pages_chunks').upsert(chunks)
\* names no conflict target, so the rows are inserted under new ids and the
\* statement fails on UNIQUE(url, chunk_idx) when one of the keys is there.
gen_upsert_chunks(b, chunks, outcome) ==
    IF chunks = <<>>
    THEN [store |-> b, success |-> 0, error |-> 0]
    ELSE IF outcome = "ok" /\ ~Conflicts(b, chunks)
    THEN [store |-> InsertRows(b, chunks), success |-> Len(chunks), error |-> 0]
    ELSE [store |-> b, success |-> 0, error |-> Len(chunks)]

\* python generate_embeddings.py
GenStart ==
    /\ gen_pc = "idle"
    /\ gen_pc' = "boot"
    /\ gen_exit' = Running
    /\ gen_i' = 0
    /\ total_chunks_success' = 0 /\ total_chunks_error' = 0
    /\ UNCHANGED <<gen_env, gen_pages, gen_store, ck_vars, run_vars, cr_vars>>

\* The two checks at the top of main, each with exit(1).
GenConfigCheck ==
    /\ gen_pc = "boot"
    /\ IF ~gen_env.SUPABASE_URL \/ ~gen_env.SUPABASE_KEY
       THEN gen_pc' = "config_error" /\ gen_exit' = ExitStatus(1)
       ELSE IF ~gen_env.OPENAI_API_KEY
       THEN gen_pc' = "config_error" /\ gen_exit' = ExitStatus(1)
       ELSE gen_pc' = "connect" /\ gen_exit' = gen_exit
    /\ UNCHANGED <<gen_env, gen_pages, gen_store, gen_i,
                   total_chunks_success, total_chunks_error,
                   ck_vars, run_vars, cr_vars>>

\* connect_to_supabase and connect_to_openai: exit(1) when either raises.
GenConnect ==
    /\ gen_pc = "connect"
    /\ \E supabase, openai \in {"ok", "raise"} :
          IF supabase = "ok" /\ openai = "ok"
          THEN gen_pc' = "create_table" /\ gen_exit' = gen_exit
          ELSE gen_pc' = "connect_error" /\ gen_exit' = ExitStatus(1)
    /\ UNCHANGED <<gen_env, gen_pages, gen_store, gen_i,
                   total_chunks_success, total_chunks_error,
                   ck_vars, run_vars, cr_vars>>

\* create_pages_chunks_table_if_not_exists: the probing select succeeds, or
\* it raises and the CREATE TABLE query then succeeds, or that query raises
\* too, outside any try, and the process ends with a traceback.
GenCreateTable ==
    /\ gen_pc = "create_table"
    /\ \E outcome \in {"exists", "created", "raise"} :
          IF outcome = "raise"
          THEN gen_pc' = "crashed" /\ gen_exit' = ExitStatus(1)
          ELSE gen_pc' = "fetch" /\ gen_exit' = gen_exit
    /\ UNCHANGED <<gen_env, gen_pages, gen_store, gen_i,
                   total_chunks_success, total_chunks_error,
                   ck_vars, run_vars, cr_vars>>

\* pages = fetch_pages(supabase_client); "if not pages: return".
GenFetchPages ==
    /\ gen_pc = "fetch"
    /\ \E outcome \in {"ok", "raise"} :
          IF fetch_pages(gen_pages, outcome) = <<>>
          THEN gen_pc' = "no_pages" /\ gen_exit' = ExitStatus(0)
          ELSE gen_pc' = "batch" /\ gen_exit' = gen_exit
    /\ UNCHANGED <<gen_env, gen_pages, gen_store, gen_i,
                   total_chunks_success, total_chunks_error,
                   ck_vars, run_vars, cr_vars>>

\* all_chunks of the pages lo .. hi, page q with the failing positions of
\* failing[q].
RECURSIVE AllChunks(_, _, _)
AllChunks(lo, hi, failing) ==
    IF lo > hi THEN <<>>
    ELSE process_page(gen_pages[lo], failing[lo]) \o AllChunks(lo + 1, hi, failing)

\* The sets of chunk positions of page q that can fail.
FailingSets(q) ==
    IF IsBlankMarkdown(gen_pages[q].markdown) THEN {{}}
    ELSE SUBSET (1..Len(split_text_into_chunks(gen_pages[q].markdown)))

\* One iteration of "for i in range(0, total_pages, BATCH_SIZE)".
GenProcessBatch ==
    /\ gen_pc = "batch" /\ gen_i < Len(gen_pages)
    /\ LET lo == gen_i + 1
           hi == IF gen_i + PAGE_BATCH_SIZE < Len(gen_pages)
                 THEN gen_i + PAGE_BATCH_SIZE ELSE Len(gen_pages)
       IN  \E failing \in [lo..hi -> UNION {FailingSets(q) : q \in lo..hi}] :
           \E outcome \in StoreOutcomes :
              /\ \A q \in lo..hi : failing[q] \in FailingSets(q)
              /\ LET all_chunks == AllChunks(lo, hi, failing)
                     results == gen_upsert_chunks(gen_store, all_chunks, outcome)
                 IN  /\ gen_store' = results.store
                     /\ total_chunks_success' = total_chunks_success + results.success
                     /\ total_chunks_error' = total_chunks_error + results.error
    /\ gen_i' = gen_i + PAGE_BATCH_SIZE
    /\ UNCHANGED <<gen_pc, gen_env, gen_pages, gen_exit,
                   ck_vars, run_vars, cr_vars>>

\* The loop is over: the summary is printed and main returns.
GenSummary ==
    /\ gen_pc = "batch" /\ gen_i >= Len(gen_pages)
    /\ gen_pc' = "done"
    /\ gen_exit' = ExitStatus(0)
    /\ UNCHANGED <<gen_env, gen_pages, gen_store, gen_i,
                   total_chunks_success, total_chunks_error,
                   ck_vars, run_vars, cr_vars>>

\* The table is empty, or holds what an earlier run stored for the first
\* page.
GenInit ==
    /\ gen_pc = "idle"
    /\ gen_env \in Environments
    /\ \E mds \in GenPageLists : gen_pages = GenPages(mds)
    /\ gen_store \in {EmptyStore, InsertRows(EmptyStore, process_page(gen_pages[1], {}))}
    /\ gen_i = 0
    /\ total_chunks_success = 0 /\ total_chunks_error = 0
    /\ gen_exit = Running
    /\ RunIdle /\ ChunkIdle /\ CrawlIdle

GenNext ==
    \/ GenStart
    \/ GenConfigCheck
    \/ GenConnect
    \/ GenCreateTable
    \/ GenFetchPages
    \/ GenProcessBatch
    \/ GenSummary

GenSpec == GenInit /\ [][GenNext]_vars

\* C20: every row of the chunk store carries the vector the embedding
\* service returned for the content of that row; no placeholder or default
\* vector is stored for a chunk whose embedding request failed.
C20_NoPlaceholderStored ==
    \A e \in gen_store :
        /\ e.row.embedding # ZeroVector
        /\ e.row.embedding.of = e.row.content

====
